---- MODULE Spec2Model ----
(***************************************************************************)
(* Model of the stock ETL: reader.run (one yearly workbook -> one curated  *)
(* table) and merge.main (all curated tables -> one historical table).     *)
(*                                                                         *)
(* A DataFrame is a finite set of rows.  Spark tables are bags, so every   *)
(* row carries the cell it was unpivoted from in the field src =           *)
(* <<year, data row, column>>; two rows that agree on every column are     *)
(* still two rows.  A nullable value v is <<v>>, and null is <<>>.         *)
(* Quantities are doubles holding whole numbers; the arithmetic of the     *)
(* detector on them is exact.                                              *)
(***************************************************************************)
EXTENDS Integers, Sequences, FiniteSets, TLC

VARIABLES
    status,      \* "idle" | "done" | "aborted": how the last reader.run ended
    df,          \* the staged table Spark reads back          (reader.py:90)
    abs_jump,    \* --abs_jump of the last run
    rel_jump,    \* --rel_jump of the last run
    unpivoted,   \* final_df after the union of the blocks     (reader.py:121)
    casted,      \* final_df after the cast to double          (reader.py:128)
    structural,  \* final_df after the structural cleaning     (reader.py:133)
    deduped,     \* final_df after the business-key dedup      (reader.py:137)
    final_df,    \* final_df as the detector reads it          (reader.py:150)
    repaired,    \* df_cleaned before the safety dedup         (reader.py:200)
    df_cleaned,  \* df_cleaned as written                      (reader.py:212)
    outputs,     \* the curated tables under output/, one per year
    has_final,   \* whether merge.main has written the final dataset
    merged       \* the final dataset                          (merge.py:24)

vars == <<status, df, abs_jump, rel_jump, unpivoted, casted, structural,
          deduped, final_df, repaired, df_cleaned, outputs, has_final, merged>>

----------------------------------------------------------------------------
(* Nullable values *)

NULL == <<>>

IsNull(x) == x = <<>>

Val(x) == x[1]

Abs(n) == IF n < 0 THEN 0 - n ELSE n

MaxOf(S) == CHOOSE m \in S : \A o \in S : o <= m

MinOf(S) == CHOOSE m \in S : \A o \in S : m <= o

----------------------------------------------------------------------------
(* Column headers.  pandas renames a repeated header h to h.1, h.2, ...;   *)
(* the header "h.k" is [name |-> h, dup |-> k] and "h" is dup = 0.         *)

Col(name, dup) == [name |-> name, dup |-> dup]

\* "Date" in str(c)
DateNames == {"Date", "CountDate"}

IsDateCol(c) == c.name \in DateNames

\* c.split('.')[0]
ShortName(c) == c.name

\* indices are 1-based here: the item column is column 1
date_col_indices(all_columns) ==
    {i \in 1..Len(all_columns) : IsDateCol(all_columns[i])}

\* all_columns[start:end] of the block that the date column date_idx closes
wh_cols(all_columns, date_idx) ==
    LET before == {i \in date_col_indices(all_columns) : i < date_idx}
        start  == IF before = {} THEN 2 ELSE MaxOf(before) + 1
    IN  start .. (date_idx - 1)

\* one stacked block: stack(...) of the warehouse columns, RecordDate = the
\* date cell of the first data row
stacked(d, yr, date_idx) ==
    {[src        |-> <<yr, r, c>>,
      ItemCode   |-> d.data[r][1],
      WhsCode    |-> <<ShortName(d.all_columns[c])>>,
      OnHand     |-> d.data[r][c],
      RecordDate |-> d.data[1][date_idx]] :
        r \in 1..Len(d.data), c \in wh_cols(d.all_columns, date_idx)}

\* the list `reshaped`: a block with no warehouse columns is skipped
reshaped(d, yr) ==
    {stacked(d, yr, j) : j \in {i \in date_col_indices(d.all_columns) :
                                    wh_cols(d.all_columns, i) # {}}}

\* reduce(DataFrame.unionByName, []) raises TypeError
ReduceRaises(d, yr) == reshaped(d, yr) = {}

unionByName(blocks) == UNION blocks

----------------------------------------------------------------------------
(* Structural cleaning *)

\* the double a quantity cell parses to; any other text casts to null
NumericValue ==
    ("0" :> 0) @@ ("8" :> 8) @@ ("9" :> 9) @@ ("10" :> 10) @@ ("11" :> 11) @@
    ("12" :> 12) @@ ("20" :> 20) @@ ("22" :> 22) @@ ("5000" :> 5000) @@
    ("-10" :> (0 - 10))

CastDouble(cell) ==
    IF IsNull(cell) THEN NULL
    ELSE IF Val(cell) \in DOMAIN NumericValue THEN <<NumericValue[Val(cell)]>>
    ELSE NULL

\* col != v under filter(): a null comparison is null and the row is dropped
SqlNotEqual(x, v) == ~IsNull(x) /\ Val(x) # v

na_drop(T) ==
    {r \in T : ~IsNull(r.ItemCode) /\ ~IsNull(r.WhsCode)
               /\ ~IsNull(r.OnHand) /\ ~IsNull(r.RecordDate)}

WithValidFor(T) ==
    {[src |-> r.src, ItemCode |-> r.ItemCode, WhsCode |-> r.WhsCode,
      OnHand |-> r.OnHand, RecordDate |-> r.RecordDate,
      ValidFor |-> IF ~IsNull(r.OnHand) /\ Val(r.OnHand) = "DC" THEN "N" ELSE "Y"] :
        r \in T}

FilterNotDC(T) == {r \in T : SqlNotEqual(r.OnHand, "DC")}

CastOnHand(T) == {[r EXCEPT !.OnHand = CastDouble(r.OnHand)] : r \in T}

FilterNotZero(T) == {r \in T : SqlNotEqual(r.OnHand, 0)}

----------------------------------------------------------------------------
(* row_number() over a window, filtered to 1.  Rows that tie on the order  *)
(* column may come out in either order, so one table has several possible  *)
(* results: these operators return the set of them.                        *)

BusinessKey(r) == <<r.ItemCode, r.WhsCode, r.RecordDate>>

Partitions(T) == {{s \in T : BusinessKey(s) = BusinessKey(r)} : r \in T}

\* orderBy(col): ascending, nulls first
AscBefore(a, b) == IsNull(a) \/ (~IsNull(b) /\ Val(a) <= Val(b))

\* orderBy(col.desc()), desc_nulls_last(): descending, nulls last
DescBefore(a, b) == IsNull(b) \/ (~IsNull(a) /\ Val(a) >= Val(b))

FirstAscending(P) == {r \in P : \A s \in P : AscBefore(r.OnHand, s.OnHand)}

FirstDescending(P) == {r \in P : \A s \in P : DescBefore(r.OnHand, s.OnHand)}

\* every way of taking one row from each set of candidates
RECURSIVE PickOne(_)
PickOne(candidates) ==
    IF candidates = {} THEN {{}}
    ELSE LET p == CHOOSE q \in candidates : TRUE
         IN  {{r} \cup rest : r \in p, rest \in PickOne(candidates \ {p})}

\* reader.py:136-137: Window.partitionBy(key).orderBy("OnHand"), row_num == 1
w_dup_key(T) == PickOne({FirstAscending(P) : P \in Partitions(T)})

\* mutant: the safety dedup left out
w_final_skipped(T) == {T}

\* reader.py:203-204: orderBy(OnHand.desc_nulls_last()), rn == 1
w_final(T) == PickOne({FirstDescending(P) : P \in Partitions(T)})

\* mutant: order_desc=False
deduplicate_by_keys_asc(T) == PickOne({FirstAscending(P) : P \in Partitions(T)})

\* utils.deduplicate_by_keys(df, order_col="OnHand", order_desc=True)
deduplicate_by_keys(T) == PickOne({FirstDescending(P) : P \in Partitions(T)})

----------------------------------------------------------------------------
(* Date standardisation.  A date cell holds text such as "2024-Jan-01";   *)
(* the lenient parser reads the day with or without its leading zero.      *)

\* to_date(s, "yyyy-MMM-dd") on the texts used here, as yyyymmdd
ParsedDate ==
    ("2024-Jan-01" :> 20240101) @@ ("2024-Jan-1" :> 20240101) @@
    ("2024-Jan-02" :> 20240102) @@ ("2024-Jan-2" :> 20240102) @@
    ("2024-Jan-03" :> 20240103) @@ ("2024-Jan-3" :> 20240103) @@
    ("2024-Jan-04" :> 20240104) @@ ("2024-Jan-4" :> 20240104) @@
    ("2024-Jan-05" :> 20240105) @@ ("2024-Jan-5" :> 20240105) @@
    ("2024-Jan-06" :> 20240106) @@ ("2024-Jan-6" :> 20240106) @@
    ("2024-Jan-07" :> 20240107) @@ ("2024-Jan-7" :> 20240107) @@
    ("2024-Dec-31" :> 20241231) @@
    ("2025-Jan-01" :> 20250101) @@ ("2025-Jan-1" :> 20250101)

\* date_format(to_date(s, "yyyy-MMM-dd"), "yyyy-MM-dd") and to_date of that:
\* the calendar day; text that does not parse becomes null
to_date(cell) ==
    IF IsNull(cell) THEN NULL
    ELSE IF Val(cell) \in DOMAIN ParsedDate THEN <<ParsedDate[Val(cell)]>>
    ELSE NULL

StandardiseDate(T) == {[r EXCEPT !.RecordDate = to_date(r.RecordDate)] : r \in T}

----------------------------------------------------------------------------
(* Outlier and null handling *)

GroupKey(r) == <<r.ItemCode, r.WhsCode>>

Groups(T) == {{s \in T : GroupKey(s) = GroupKey(r)} : r \in T}

\* orderBy("RecordDate"): ascending, nulls first
DateBefore(a, b) == IsNull(a) \/ (~IsNull(b) /\ Val(a) <= Val(b))

\* w_ord on one partition: every order of its rows the sort may produce
RECURSIVE w_ord(_)
w_ord(G) ==
    IF G = {} THEN {<<>>}
    ELSE UNION {{<<r>> \o rest : rest \in w_ord(G \ {r})} :
                 r \in {x \in G : \A y \in G : DateBefore(x.RecordDate, y.RecordDate)}}

\* F.last("OnHand", ignorenulls=True) over rowsBetween(unboundedPreceding, -1)
prev_non_null(w, i) ==
    LET seen == {k \in 1..(i - 1) : ~IsNull(w[k].OnHand)}
    IN  IF seen = {} THEN NULL ELSE w[MaxOf(seen)].OnHand

\* F.first("OnHand", ignorenulls=True) over rowsBetween(1, unboundedFollowing)
next_non_null(w, i) ==
    LET ahead == {k \in (i + 1)..Len(w) : ~IsNull(w[k].OnHand)}
    IN  IF ahead = {} THEN NULL ELSE w[MinOf(ahead)].OnHand

\* F.when(prev.isNotNull(), F.abs(OnHand - prev)): null when either is null
abs_change(x, prev) ==
    IF IsNull(prev) \/ IsNull(x) THEN NULL ELSE <<Abs(Val(x) - Val(prev))>>

\* mutant: >= as in the usage text
AbsExceedsOrEqual(x, prev, aj) ==
    ~IsNull(abs_change(x, prev)) /\ Val(abs_change(x, prev)) >= aj

\* abs_change > abs_jump
AbsExceeds(x, prev, aj) ==
    ~IsNull(abs_change(x, prev)) /\ Val(abs_change(x, prev)) > aj

\* F.abs((OnHand - prev) / prev) > rel_jump, for prev non-null and non-zero:
\* |x - p| / |p| > rj, which is |x - p| > rj * |p|
RelExceeds(x, prev, rj) ==
    /\ ~IsNull(prev) /\ Val(prev) # 0 /\ ~IsNull(x)
    /\ Abs(Val(x) - Val(prev)) > rj * Abs(Val(prev))

is_outlier(x, prev, aj, rj) ==
    ~IsNull(x) /\ (AbsExceeds(x, prev, aj) \/ RelExceeds(x, prev, rj))

\* mutant: the next valid value preferred to the previous one
filled_onhand_next_first(x, outlier, prev, next) ==
    IF outlier /\ ~IsNull(next) THEN next
    ELSE IF outlier /\ IsNull(next) /\ ~IsNull(prev) THEN prev
    ELSE IF IsNull(x) /\ ~IsNull(next) THEN next
    ELSE IF IsNull(x) /\ IsNull(next) /\ ~IsNull(prev) THEN prev
    ELSE x

filled_onhand(x, outlier, prev, next) ==
    IF outlier /\ ~IsNull(prev) THEN prev
    ELSE IF outlier /\ IsNull(prev) /\ ~IsNull(next) THEN next
    ELSE IF IsNull(x) /\ ~IsNull(prev) THEN prev
    ELSE IF IsNull(x) /\ IsNull(prev) /\ ~IsNull(next) THEN next
    ELSE x

\* is_outlier.cast("string")
BoolString(b) == IF b THEN "true" ELSE "false"

\* the rows of df_cleaned (reader.py:191-200) for one partition sorted as w;
\* pos is the row's place in the window, kept for reference only
CleanedRow(w, i, aj, rj) ==
    LET x    == w[i].OnHand
        prev == prev_non_null(w, i)
        next == next_non_null(w, i)
        out  == is_outlier(x, prev, aj, rj)
    IN  [src |-> w[i].src, ItemCode |-> w[i].ItemCode, WhsCode |-> w[i].WhsCode,
         RecordDate |-> w[i].RecordDate, ValidFor |-> w[i].ValidFor,
         OnHand_raw |-> x,
         OutlierFlag |-> BoolString(out),
         OnHand |-> filled_onhand(x, out, prev, next),
         pos |-> i]

\* mutant: a daily spine, a row for the day after each observed day
CleanedGroupSpine(w, aj, rj) ==
    {CleanedRow(w, i, aj, rj) : i \in 1..Len(w)}
    \cup {[CleanedRow(w, i, aj, rj) EXCEPT !.RecordDate = <<Val(w[i].RecordDate) + 1>>] :
            i \in {k \in 1..Len(w) : ~IsNull(w[k].RecordDate)}}

CleanedGroup(w, aj, rj) == {CleanedRow(w, i, aj, rj) : i \in 1..Len(w)}

\* every way of taking one table from each set of alternatives, united
RECURSIVE UnionOfChoices(_)
UnionOfChoices(alternatives) ==
    IF alternatives = {} THEN {{}}
    ELSE LET a == CHOOSE b \in alternatives : TRUE
         IN  {t \cup rest : t \in a, rest \in UnionOfChoices(alternatives \ {a})}

\* df_cleaned before the safety dedup: each partition in one of its orders
Cleaned(T, aj, rj) ==
    UnionOfChoices({{CleanedGroup(w, aj, rj) : w \in w_ord(G)} : G \in Groups(T)})

\* the final select (reader.py:209-212)
SelectColumns(T) ==
    {[src |-> r.src, ItemCode |-> r.ItemCode, WhsCode |-> r.WhsCode,
      OnHand |-> r.OnHand, ValidFor |-> r.ValidFor, RecordDate |-> r.RecordDate,
      OutlierFlag |-> r.OutlierFlag, OnHand_raw |-> r.OnHand_raw] : r \in T}

----------------------------------------------------------------------------
(* Workbooks.  pandas hands Spark a table whose first column is the item   *)
(* id (unique: drop_duplicates on it, reader.py:80) and whose repeated     *)
(* headers carry the suffixes .1, .2, ...                                  *)

MaxCols == 4     \* columns after the item column, general workbooks
MaxItems == 2    \* data rows, layout workbooks
MaxLen == 4      \* date blocks of a one-warehouse series
MaxTie == 3      \* date blocks of a series whose last two dates coincide
MaxYears == 2    \* yearly workbooks processed before the merge

DefaultAbsJump == 500

DefaultRelJump == 5

Items == <<"A", "B", "C", "D">>

Text(s) == <<s>>

\* day k of January 2024 as the workbook writes it
PaddedDay == <<"2024-Jan-01", "2024-Jan-02", "2024-Jan-03", "2024-Jan-04",
               "2024-Jan-05", "2024-Jan-06", "2024-Jan-07">>

UnpaddedDay == <<"2024-Jan-1", "2024-Jan-2", "2024-Jan-3", "2024-Jan-4",
                 "2024-Jan-5", "2024-Jan-6", "2024-Jan-7">>

\* the header row as pandas leaves it
Headers(names) ==
    [i \in 1..Len(names) |->
        Col(names[i], Cardinality({k \in 1..(i - 1) : names[k] = names[i]}))]

\* the staged table: names and cells of the columns after the item column
Staged(names, cells) ==
    [all_columns |-> <<Col("Item", 0)>> \o Headers(names),
     data        |-> [r \in 1..Len(cells) |-> <<Text(Items[r])>> \o cells[r]]]

\* general workbooks: one item, any layout of W1 and Date columns, cells that
\* are sentinels, text, zero or quantities, dates that parse, coincide or fail
WideCells == {Text("DC"), Text("x"), Text("0"), Text("8"), Text("5000")}

WideDates == {Text("2024-Jan-01"), Text("2024-Jan-1"), Text("2024-Jxn-01")}

WideColumns == ({"W1"} \X WideCells) \cup ({"Date"} \X WideDates)

WideInputs ==
    {Staged([i \in 1..Len(c) |-> c[i][1]], <<[i \in 1..Len(c) |-> c[i][2]]>>) :
        c \in UNION {[1..n -> WideColumns] : n \in 0..MaxCols}}

\* layout workbooks: several items, any layout of W1, W2 and Date columns
LayoutQty == <<"8", "9", "10", "11">>

LayoutCell(name, r, i) ==
    IF name \in DateNames THEN Text(PaddedDay[i]) ELSE Text(LayoutQty[r])

LayoutInputs ==
    {Staged(names, [r \in 1..m |-> [i \in 1..Len(names) |-> LayoutCell(names[i], r, i)]]) :
        names \in UNION {[1..n -> {"W1", "W2", "Date"}] : n \in 0..MaxCols},
        m \in 1..MaxItems}

\* series workbooks: one item, one warehouse, one block per day
SeriesCells == {Text("-10"), Text("10"), Text("11"), Text("12"), Text("5000")}

SeriesNames(n) == [i \in 1..(2 * n) |-> IF i % 2 = 1 THEN "W1" ELSE "Date"]

\* block k is day k; with tie, the last block repeats the day before it,
\* written without the leading zero
SeriesRow(q, tie) ==
    [i \in 1..(2 * Len(q)) |->
        IF i % 2 = 1 THEN q[(i + 1) \div 2]
        ELSE IF tie /\ i = 2 * Len(q)
             THEN Text(UnpaddedDay[(i \div 2) - 1])
             ELSE Text(PaddedDay[i \div 2])]

\* the series of the documented example
ExampleQty == <<Text("10"), Text("10"), Text("5000"), Text("12"), Text("11")>>

SeriesInputs ==
    {Staged(SeriesNames(Len(q)), <<SeriesRow(q, FALSE)>>) :
        q \in UNION {[1..n -> SeriesCells] : n \in 1..MaxLen}}
    \cup
    {Staged(SeriesNames(Len(q)), <<SeriesRow(q, TRUE)>>) :
        q \in UNION {[1..n -> SeriesCells] : n \in 2..MaxTie}}
    \cup
    {Staged(SeriesNames(Len(ExampleQty)), <<SeriesRow(ExampleQty, FALSE)>>)}

SeriesThresholds == {<<DefaultAbsJump, 2>>, <<1, DefaultRelJump>>}

\* yearly workbooks: one item, two blocks of one warehouse, around a year end
YearlyDates1 == {Text("2024-Dec-31"), Text("2025-Jan-01"), Text("2024-Dxc-31")}

YearlyDates2 == {Text("2025-Jan-1"), Text("2025-Jxn-01")}

YearlyInputs ==
    {Staged(<<"W1", "Date", "W1", "Date">>, <<<<Text(q1), d1, Text(q2), d2>>>>) :
        q1 \in {"8", "9"}, d1 \in YearlyDates1, q2 \in {"9"}, d2 \in YearlyDates2}

DefaultThresholds == {<<DefaultAbsJump, DefaultRelJump>>}

----------------------------------------------------------------------------
(* The programs *)

Init ==
    /\ status = "idle"
    /\ df = Staged(<<>>, <<>>)
    /\ abs_jump = DefaultAbsJump
    /\ rel_jump = DefaultRelJump
    /\ unpivoted = {}
    /\ casted = {}
    /\ structural = {}
    /\ deduped = {}
    /\ final_df = {}
    /\ repaired = {}
    /\ df_cleaned = {}
    /\ outputs = <<>>
    /\ has_final = FALSE
    /\ merged = {}

\* reader.run(year, abs_jump, rel_jump) on the staged table d, year by year
run(d, aj, rj) ==
    LET yr    == Len(outputs) + 1
        u     == unionByName(reshaped(d, yr))
        c     == CastOnHand(FilterNotDC(WithValidFor(na_drop(u))))
        s     == FilterNotZero(c)
    IN  /\ df' = d
        /\ abs_jump' = aj
        /\ rel_jump' = rj
        /\ UNCHANGED <<has_final, merged>>
        /\ IF ReduceRaises(d, yr)
           THEN /\ status' = "aborted"
                /\ unpivoted' = {} /\ casted' = {} /\ structural' = {}
                /\ deduped' = {} /\ final_df' = {} /\ repaired' = {}
                /\ df_cleaned' = {}
                /\ UNCHANGED outputs
           ELSE \E dd \in w_dup_key(s) :
                \E rep \in Cleaned(StandardiseDate(dd), aj, rj) :
                \E fin \in w_final(rep) :
                    /\ status' = "done"
                    /\ unpivoted' = u
                    /\ casted' = c
                    /\ structural' = s
                    /\ deduped' = dd
                    /\ final_df' = StandardiseDate(dd)
                    /\ repaired' = rep
                    /\ df_cleaned' = SelectColumns(fin)
                    /\ outputs' = Append(outputs, SelectColumns(fin))

\* merge.main()
main ==
    /\ ~has_final
    /\ IF outputs = <<>>
       THEN UNCHANGED vars
       ELSE \E m \in deduplicate_by_keys(UNION {outputs[i] : i \in 1..Len(outputs)}) :
                /\ merged' = m
                /\ has_final' = TRUE
                /\ UNCHANGED <<status, df, abs_jump, rel_jump, unpivoted, casted,
                               structural, deduped, final_df, repaired, df_cleaned,
                               outputs>>

\* a year is processed once, an aborted run ends the session, and the merge
\* comes after the last year
Ready(years) == ~has_final /\ Len(outputs) < years /\ status # "aborted"

RunWide ==
    /\ Ready(1)
    /\ \E d \in WideInputs \cup LayoutInputs, t \in DefaultThresholds : run(d, t[1], t[2])

RunSeries ==
    /\ Ready(1)
    /\ \E d \in SeriesInputs, t \in SeriesThresholds : run(d, t[1], t[2])

RunYearly ==
    /\ Ready(MaxYears)
    /\ \E d \in YearlyInputs, t \in DefaultThresholds : run(d, t[1], t[2])

Next == RunWide \/ main

Spec == Init /\ [][Next]_vars

NextSeries == RunSeries

SpecSeries == Init /\ [][NextSeries]_vars

NextYearly == RunYearly \/ main

SpecYearly == Init /\ [][NextYearly]_vars

----------------------------------------------------------------------------
(* Properties *)

Done == status = "done"

Flagged(r) == r.OutlierFlag = "true"

UniqueKeys(T) == \A r, s \in T : BusinessKey(r) = BusinessKey(s) => r = s

MergeInput == UNION {outputs[i] : i \in 1..Len(outputs)}

\* C1: no two rows of a curated table, and no two rows of the merged table,
\* share (ItemCode, WhsCode, RecordDate); also when the date standardisation
\* has put two rows of the detector's input on one date or on null.
C1_Uniqueness ==
    /\ Done => UniqueKeys(df_cleaned)
    /\ \A i \in 1..Len(outputs) : UniqueKeys(outputs[i])
    /\ has_final => UniqueKeys(merged)

\* two rows of one year met on one key only after the standardisation, two
\* years share a key, and the merge has run
C1_Witness ==
    /\ Done /\ has_final /\ Len(outputs) = 2
    /\ \E r, s \in final_df : r # s /\ BusinessKey(r) = BusinessKey(s)
    /\ \E a \in outputs[1], b \in outputs[2] : BusinessKey(a) = BusinessKey(b)

\* C8: the merged table holds, for every key of some curated table, exactly
\* one row; that row is one of the input rows and its OnHand is the largest
\* among the input rows of that key.
C8_MergeKeepsHighest ==
    has_final =>
        /\ merged \subseteq MergeInput
        /\ \A r \in MergeInput :
              \E m \in merged :
                  /\ BusinessKey(m) = BusinessKey(r)
                  /\ \A n \in merged : BusinessKey(n) = BusinessKey(r) => n = m
                  /\ \A k \in MergeInput :
                        (BusinessKey(k) = BusinessKey(r) /\ ~IsNull(k.OnHand))
                            => (~IsNull(m.OnHand) /\ Val(k.OnHand) <= Val(m.OnHand))

\* (A, W1, 2024-12-31) is in two years with OnHand 8 and 9, and merged with 9
C8_Witness ==
    /\ has_final /\ Len(outputs) = 2
    /\ \E a \in outputs[1], b \in outputs[2], m \in merged :
          /\ BusinessKey(a) = <<Text("A"), Text("W1"), <<20241231>>>>
          /\ BusinessKey(b) = BusinessKey(a) /\ BusinessKey(m) = BusinessKey(a)
          /\ a.OnHand = <<8>> /\ b.OnHand = <<9>> /\ m.OnHand = <<9>>

\* C2: the repair pass and the safety dedup create no row: every curated row
\* has its (ItemCode, WhsCode) and its RecordDate on a row of the
\* structurally-cleaned input of the detector.
C2_NoFabricatedRows ==
    Done => \A o \in df_cleaned :
                \E f \in final_df :
                    GroupKey(f) = GroupKey(o) /\ f.RecordDate = o.RecordDate

\* a row was repaired and the safety dedup removed a row
C2_Witness ==
    /\ Done
    /\ \E o \in df_cleaned : Flagged(o)
    /\ Cardinality(df_cleaned) < Cardinality(final_df)

\* the key a structurally-cleaned row collides on: the date as it was read
StructuralRow(o) == CHOOSE k \in structural : k.src = o.src

\* C7: of the structurally-cleaned rows that share (ItemCode, WhsCode,
\* RecordDate), the one that reaches the detector, and the curated table, has
\* the highest OnHand.
C7_DedupKeepsHighest ==
    Done =>
        /\ \A d \in deduped : \A k \in structural :
              BusinessKey(k) = BusinessKey(StructuralRow(d))
                  => Val(k.OnHand) <= Val(d.OnHand)
        /\ \A o \in df_cleaned : \A k \in structural :
              BusinessKey(k) = BusinessKey(StructuralRow(o))
                  => Val(k.OnHand) <= Val(o.OnHand_raw)

\* a quantity cell that is text other than "DC"
NonNumeric(r) ==
    /\ ~IsNull(r.ItemCode) /\ ~IsNull(r.WhsCode) /\ ~IsNull(r.RecordDate)
    /\ ~IsNull(r.OnHand) /\ Val(r.OnHand) # "DC" /\ IsNull(CastDouble(r.OnHand))

\* C9: a reshaped row whose quantity is text other than "DC" is cast to null,
\* reaches the detector, and is in the curated table under its key with a
\* null OnHand_raw; the run does not abort.
C9_ErrorsAbsorbed ==
    \A r \in unpivoted :
        NonNumeric(r) =>
            /\ Done
            /\ \E c \in casted : c.src = r.src /\ IsNull(c.OnHand)
            /\ \E f \in final_df :
                  /\ GroupKey(f) = GroupKey(r) /\ f.RecordDate = to_date(r.RecordDate)
                  /\ IsNull(f.OnHand)
            /\ \E o \in df_cleaned :
                  /\ GroupKey(o) = GroupKey(r) /\ o.RecordDate = to_date(r.RecordDate)
                  /\ IsNull(o.OnHand_raw)

\* the date of a row of casted, and "earlier" among such dates (null first)
DateEarlier(a, b) == ~IsNull(b) /\ (IsNull(a) \/ Val(a) < Val(b))

\* the values the null-handling clauses may give a null row r of casted: the
\* nearest earlier non-null value of its group, else the nearest later one,
\* else null
ExpectedFill(r) ==
    LET valid   == {c \in casted : GroupKey(c) = GroupKey(r) /\ ~IsNull(c.OnHand)}
        earlier == {c \in valid : DateEarlier(to_date(c.RecordDate), to_date(r.RecordDate))}
        later   == {c \in valid : DateEarlier(to_date(r.RecordDate), to_date(c.RecordDate))}
    IN  IF earlier # {}
        THEN {c.OnHand : c \in {e \in earlier : \A x \in earlier :
                 ~DateEarlier(to_date(e.RecordDate), to_date(x.RecordDate))}}
        ELSE IF later # {}
        THEN {c.OnHand : c \in {e \in later : \A x \in later :
                 ~DateEarlier(to_date(x.RecordDate), to_date(e.RecordDate))}}
        ELSE {NULL}

\* C6: a row whose OnHand is null before the repair is in the curated table
\* with OnHand = prev_valid, else next_valid, else null, and OutlierFlag false.
C6_NullRepair ==
    Done => \A r \in casted :
                IsNull(r.OnHand) =>
                    \E o \in df_cleaned :
                        /\ GroupKey(o) = GroupKey(r)
                        /\ o.RecordDate = to_date(r.RecordDate)
                        /\ IsNull(o.OnHand_raw)
                        /\ o.OutlierFlag = "false"
                        /\ o.OnHand \in ExpectedFill(r)

\* the warehouse columns that lie before some date marker
BlockColumns ==
    {c \in 2..Len(df.all_columns) :
        /\ ~IsDateCol(df.all_columns[c])
        /\ \E j \in (c + 1)..Len(df.all_columns) : IsDateCol(df.all_columns[j])}

\* the first date marker after column c
NextMarker(c) ==
    MinOf({j \in (c + 1)..Len(df.all_columns) : IsDateCol(df.all_columns[j])})

\* C10: for every layout the reshaping raises nothing, yields (items) x
\* (warehouse columns before some date marker) rows, and gives each row the
\* date of the first marker after its column.
C10_ReshapeTotal ==
    /\ status # "aborted"
    /\ Done =>
        /\ Cardinality(unpivoted) = Len(df.data) * Cardinality(BlockColumns)
        /\ \A r \in unpivoted :
              /\ r.src[3] \in BlockColumns
              /\ r.RecordDate = df.data[1][NextMarker(r.src[3])]

\* prev_valid of a row of the detector's output: the pre-repair value of the
\* nearest row before it in its group's window that is not null
PrevValid(r) ==
    LET before == {p \in repaired : /\ GroupKey(p) = GroupKey(r)
                                    /\ p.pos < r.pos
                                    /\ ~IsNull(p.OnHand_raw)}
    IN  IF before = {} THEN NULL
        ELSE (CHOOSE p \in before : \A q \in before : q.pos <= p.pos).OnHand_raw

Change(r) == Abs(Val(r.OnHand_raw) - Val(PrevValid(r)))

InputRow(o) == CHOOSE f \in final_df : f.src = o.src

\* the pre-repair values nearest before row f by RecordDate: those of the
\* non-null rows of its group on the latest strictly earlier date
NearestEarlier(f) ==
    LET earlier == {e \in final_df : /\ GroupKey(e) = GroupKey(f)
                                     /\ ~IsNull(e.OnHand)
                                     /\ DateEarlier(e.RecordDate, f.RecordDate)}
    IN  {e.OnHand : e \in {x \in earlier : \A y \in earlier :
                              ~DateEarlier(x.RecordDate, y.RecordDate)}}

\* no two rows of f's group share a RecordDate in the detector's input
DistinctDates(f) ==
    \A a, b \in final_df :
        (GroupKey(a) = GroupKey(f) /\ GroupKey(b) = GroupKey(f)
            /\ a.RecordDate = b.RecordDate) => a = b

\* the workbook holds the series [10, 10, 5000, 12, 11] and abs_jump is 500
ExampleSeries ==
    /\ abs_jump = 500
    /\ df = Staged(SeriesNames(Len(ExampleQty)), <<SeriesRow(ExampleQty, FALSE)>>)

ExampleRepaired ==
    \E o \in df_cleaned :
        /\ o.RecordDate = <<20240103>> /\ Flagged(o)
        /\ o.OnHand = <<10>> /\ o.OnHand_raw = <<5000>>

\* what C5 says apart from where prev_valid is found
C5_Audit(o) ==
    /\ o.OutlierFlag \in {"true", "false"}
    /\ o.OnHand_raw = InputRow(o).OnHand
    /\ (~IsNull(o.OnHand_raw) /\ ~Flagged(o)) => o.OnHand = o.OnHand_raw

\* C5 as stated: a flagged row's OnHand is the nearest non-null pre-repair
\* value at an earlier RecordDate of its group, its OutlierFlag is true and
\* its OnHand_raw the pre-repair value; a non-null unflagged row keeps its
\* value; [10, 10, 5000, 12, 11] with abs_jump 500 has 5000 replaced by 10.
C5_NeighborAsStated ==
    Done =>
        /\ \A o \in df_cleaned :
              /\ C5_Audit(o)
              /\ Flagged(o) => o.OnHand \in NearestEarlier(InputRow(o))
        /\ ExampleSeries => ExampleRepaired

\* C5 amended: the same, for the rows of a group whose RecordDates are
\* pairwise distinct in the detector's input.
C5_Neighbor ==
    Done =>
        /\ \A o \in df_cleaned :
              /\ C5_Audit(o)
              /\ (Flagged(o) /\ DistinctDates(InputRow(o)))
                    => o.OnHand \in NearestEarlier(InputRow(o))
        /\ ExampleSeries => ExampleRepaired

C5_Witness == Done /\ ExampleSeries /\ ExampleRepaired

\* the curated table read as a detector input
AsInput(T) ==
    {[src |-> r.src, ItemCode |-> r.ItemCode, WhsCode |-> r.WhsCode,
      OnHand |-> r.OnHand, RecordDate |-> r.RecordDate, ValidFor |-> r.ValidFor] :
        r \in T}

\* the detector run again, same thresholds, on the repaired values
SecondRun == Cleaned(AsInput(df_cleaned), abs_jump, rel_jump)

Predecessors(r) ==
    {p \in df_cleaned :
        /\ GroupKey(p) = GroupKey(r)
        /\ DateEarlier(p.RecordDate, r.RecordDate)
        /\ \A q \in df_cleaned :
              (GroupKey(q) = GroupKey(r) /\ DateEarlier(q.RecordDate, r.RecordDate))
                  => ~DateEarlier(p.RecordDate, q.RecordDate)}

====
